---- MODULE Spec2Model ----
(***************************************************************************)
(* Model of util/utils.go of ipfs-update: the version comparator           *)
(* (BeforeVersion), the size-limited stream (newLimitReadCloser), and the  *)
(* fetch strategy (Fetch, httpFetch, httpGet) with its concurrent          *)
(* progress reporter (PrintProgress).                                      *)
(*                                                                         *)
(* Strings are sequences of one-character strings, so that slicing,        *)
(* splitting, concatenation and parsing are computed, not assumed.         *)
(***************************************************************************)
EXTENDS Integers, Sequences, FiniteSets, TLC

VARIABLES
  \* ---- BeforeVersion ----
  check,      \* first argument of BeforeVersion
  cur,        \* second argument of BeforeVersion
  vres,       \* "none" before the call, then "true", "false" or "panic"
  \* ---- limitReadCloser ----
  lsrc,       \* the bytes of the underlying source
  llimit,     \* the ceiling given to newLimitReadCloser
  lN,         \* io.LimitedReader.N, the bytes still allowed
  lpos,       \* bytes of the source already consumed by the wrapper
  lout,       \* bytes delivered to the consumer so far
  lerr,       \* error of the last Read: "none" (no read yet), "nil", "EOF", "error"
  \* ---- Fetch / httpFetch / httpGet (the main task) ----
  pc,           \* position of the main task
  apiFile,      \* the discovery file <ipfs-dir>/api: [exists, val]
  ipfspath,     \* argument of Fetch
  ep,           \* endpoint returned by ApiEndpoint
  discErr,      \* error returned by ApiEndpoint (err of Fetch, line 160)
  isUp,         \* "unknown", then "up" or "down": the answer of sh.IsUp()
  daemon,       \* calls made to the local daemon, in order
  url,          \* argument of httpFetch / httpGet
  requests,     \* HTTP requests issued to the gateway, in order
  headResponse, \* result of http.Head: [state, cl, err]
  out,          \* the temporary file handle: "none", "open", "closed"
  fileExists,   \* the temporary file is present on disk
  fileSize,     \* its size
  size,         \* the parsed Content-Length (total of PrintProgress)
  resp,         \* the GET response: [status, body]
  bodyPos,      \* bytes of resp.Body already read
  ret,          \* what Fetch returned: [stream, err, rc]
  open,         \* response bodies and daemon streams opened and not closed
  \* ---- PrintProgress (the reporter task) ----
  rpc,          \* position of the reporter
  halt,         \* its local variable halt
  emitted,      \* what it printed, in order (the first MaxSamples
                \* percentages, and COMPLETE)
  \* ---- the caller of Fetch, consuming the returned stream ----
  got,          \* bytes read from the returned stream
  gotErr,       \* error of its last Read: "none", "nil", "EOF"
  closed,       \* the caller has closed the returned stream
  \* ---- RunCmd ----
  cmdOut,       \* what cmd.CombinedOutput() captured
  cmdFail,      \* cmd.CombinedOutput() returned an error
  runRet        \* result of RunCmd: [state, out, msg]

vvars == <<check, cur, vres>>
lvars == <<lsrc, llimit, lN, lpos, lout, lerr>>
mvars == <<pc, apiFile, ipfspath, ep, discErr, isUp, daemon, url, requests,
           headResponse, out, fileExists, fileSize, size, resp, bodyPos, ret,
           open>>
rvars == <<rpc, halt, emitted>>
cvars == <<got, gotErr, closed>>
fvars == <<mvars, rvars, cvars>>
cmdvars == <<cmdOut, cmdFail, runRet>>
vars == <<vvars, lvars, fvars, cmdvars>>

\* ------------------------------------------------------------------------
\* Bounds
\* ------------------------------------------------------------------------
MaxDigit == 2      \* version components use the digits 0..MaxDigit
MaxSrc == 3        \* longest source fed to the limit reader
MaxLimit == 3      \* largest ceiling given to the limit reader
MaxBuf == 2        \* largest buffer a consumer passes to Read
MaxBody == 3       \* longest gateway response body; largest Content-Length
MaxSamples == 3    \* most percentage lines the reporter prints in one run
MaxApiLen == 6     \* longest generated content of the discovery file
MaxOut == 3        \* longest captured output of a command

\* ------------------------------------------------------------------------
\* String helpers (Go strings / strconv)
\* ------------------------------------------------------------------------
Min(a, b) == IF a < b THEN a ELSE b

DigitChars == <<"0", "1", "2", "3", "4", "5", "6", "7", "8", "9">>

IsDigit(c) == \E i \in 1..10 : DigitChars[i] = c

DigitVal(c) == (CHOOSE i \in 1..10 : DigitChars[i] = c) - 1

\* strings.Split(s, sep) for a one-character separator: the fields between
\* the separators; the empty string splits into one empty field.
RECURSIVE SplitAcc(_, _, _, _)
SplitAcc(s, sep, acc, part) ==
  IF s = <<>> THEN Append(acc, part)
  ELSE IF Head(s) = sep THEN SplitAcc(Tail(s), sep, Append(acc, part), <<>>)
  ELSE SplitAcc(Tail(s), sep, acc, Append(part, Head(s)))

Split(s, sep) == SplitAcc(s, sep, <<>>, <<>>)

\* The value of a string of decimal digits, most significant first.
RECURSIVE DigitsVal(_, _)
DigitsVal(s, acc) ==
  IF s = <<>> THEN acc ELSE DigitsVal(Tail(s), 10 * acc + DigitVal(Head(s)))

\* strconv.Atoi: an optional sign followed by at least one decimal digit.
\* (The int range is 64 bits; every string of the model is far below it.)
Atoi(s) ==
  LET signed == s /= <<>> /\ Head(s) \in {"+", "-"}
      digits == IF signed THEN Tail(s) ELSE s
  IN IF digits = <<>> \/ \E i \in 1..Len(digits) : ~IsDigit(digits[i])
       THEN [ok |-> FALSE, val |-> 0]
       ELSE [ok |-> TRUE,
             val |-> IF signed /\ Head(s) = "-" THEN 0 - DigitsVal(digits, 0)
                     ELSE DigitsVal(digits, 0)]

\* ------------------------------------------------------------------------
\* BeforeVersion (utils.go:248-268)
\* ------------------------------------------------------------------------

\* A comparison loop that answers "true" when check's number is the smaller.
RECURSIVE CompareSwapped(_, _, _)
CompareSwapped(aparts, bparts, i) ==
  IF i > 3 THEN "false"
  ELSE IF i > Len(aparts) THEN "panic"
  ELSE LET an == Atoi(aparts[i]) IN
    IF ~an.ok THEN "false"
    ELSE IF i > Len(bparts) THEN "panic"
    ELSE LET bn == Atoi(bparts[i]) IN
      IF ~bn.ok THEN "false"
      ELSE IF an.val < bn.val THEN "true"
      ELSE IF an.val > bn.val THEN "false"
      ELSE CompareSwapped(aparts, bparts, i + 1)

\* A comparison loop that answers "true" when all three components are equal.
RECURSIVE CompareOrEqual(_, _, _)
CompareOrEqual(aparts, bparts, i) ==
  IF i > 3 THEN "true"
  ELSE IF i > Len(aparts) THEN "panic"
  ELSE LET an == Atoi(aparts[i]) IN
    IF ~an.ok THEN "false"
    ELSE IF i > Len(bparts) THEN "panic"
    ELSE LET bn == Atoi(bparts[i]) IN
      IF ~bn.ok THEN "false"
      ELSE IF bn.val < an.val THEN "true"
      ELSE IF bn.val > an.val THEN "false"
      ELSE CompareOrEqual(aparts, bparts, i + 1)

\* The loop "for i := 0; i < 3; i++" of BeforeVersion, from iteration i
\* (1-based here).  An index past the end of aparts or bparts is a run-time
\* panic; aparts[i] is indexed and parsed before bparts[i] is touched.
RECURSIVE CompareFrom(_, _, _)
CompareFrom(aparts, bparts, i) ==
  IF i > 3 THEN "false"
  ELSE IF i > Len(aparts) THEN "panic"
  ELSE LET an == Atoi(aparts[i]) IN
    IF ~an.ok THEN "false"
    ELSE IF i > Len(bparts) THEN "panic"
    ELSE LET bn == Atoi(bparts[i]) IN
      IF ~bn.ok THEN "false"
      ELSE IF bn.val < an.val THEN "true"
      ELSE IF bn.val > an.val THEN "false"
      ELSE CompareFrom(aparts, bparts, i + 1)

\* BeforeVersion(check, cur): check[1:] and cur[1:] panic on the empty string.
BeforeVersion(chk, cr) ==
  IF chk = <<>> \/ cr = <<>> THEN "panic"
  ELSE CompareFrom(Split(Tail(chk), "."), Split(Tail(cr), "."), 1)

\* ---- inputs of the comparator ----
DigitComps == {<<DigitChars[d + 1]>> : d \in 0..MaxDigit}

\* components: single digits, a two-digit number, a signed number,
\* a non-numeric one and the empty one
Comps == DigitComps \cup {<<"1", "0">>, <<"-", "1">>, <<"x">>, <<>>}

ShortComps == {<<"1">>, <<"2">>, <<"x">>}

\* prefix character followed by the components joined with "."
RECURSIVE Join(_)
Join(cs) ==
  IF Len(cs) = 0 THEN <<>>
  ELSE IF Len(cs) = 1 THEN cs[1]
  ELSE cs[1] \o <<".">> \o Join(Tail(cs))

Ver(cs) == <<"v">> \o Join(cs)

ExampleVersions ==
  { Ver(<<<<"1">>, <<"2">>, <<"3">>>>), Ver(<<<<"1">>, <<"2">>, <<"4">>>>),
    Ver(<<<<"2">>, <<"0">>, <<"0">>>>), Ver(<<<<"1">>, <<"9">>, <<"9">>>>),
    Ver(<<<<"1">>, <<"2">>, <<"x">>>>) }

ThreeCompVersions == {Ver(cs) : cs \in [1..3 -> Comps]}

OtherShapeVersions ==
  {<<>>, <<"v">>}
    \cup {Ver(cs) : cs \in [1..1 -> ShortComps]}
    \cup {Ver(cs) : cs \in [1..2 -> ShortComps]}
    \cup {Ver(cs) : cs \in [1..4 -> ShortComps]}

Versions == ThreeCompVersions \cup OtherShapeVersions \cup ExampleVersions

\* ---- state machine of one call ----
InitVersion ==
  /\ check \in Versions
  /\ cur \in Versions
  /\ vres = "none"

CallBeforeVersion ==
  /\ vres = "none"
  /\ vres' = BeforeVersion(check, cur)
  /\ UNCHANGED <<check, cur>>

\* ------------------------------------------------------------------------
\* limitReadCloser (utils.go:177-187)
\* ------------------------------------------------------------------------
Bytes == {"a", "b"}

SeqsUpTo(S, n) == UNION {[1..k -> S] : k \in 0..n}

Take(s, n) == SubSeq(s, 1, Min(n, Len(s)))

\* What a read of the underlying byte source may answer for a buffer of
\* length p at position pos: a zero-length buffer reads nothing; at the end,
\* (0, EOF); otherwise between 1 and p bytes, with EOF reported either
\* together with the last bytes of the source or by the next read.
SourceReads(src, pos, p) ==
  IF p = 0 THEN {[n |-> 0, eof |-> FALSE]}
  ELSE IF pos >= Len(src) THEN {[n |-> 0, eof |-> TRUE]}
  ELSE {r \in [n : 1..Min(p, Len(src) - pos), eof : BOOLEAN] :
          r.eof => pos + r.n = Len(src)}

\* A limited reader that does not cut the buffer to the remaining allowance.
LimitedReadNoCut(N, pos, src, buflen) ==
  IF N <= 0
    THEN {[n |-> 0, err |-> "EOF", N |-> N, pos |-> pos]}
    ELSE {[n |-> sr.n, err |-> IF sr.eof THEN "EOF" ELSE "nil",
           N |-> N - sr.n, pos |-> pos + sr.n] :
            sr \in SourceReads(src, pos, buflen)}

\* io.LimitedReader.Read as set up by newLimitReadCloser, for a buffer of
\* buflen bytes: with N <= 0 it answers (0, EOF) without touching the source;
\* otherwise the buffer is cut to N bytes, the source is read and N is
\* decreased by the number of bytes read.  The set of possible answers.
LimitedRead(N, pos, src, buflen) ==
  IF N <= 0
    THEN {[n |-> 0, err |-> "EOF", N |-> N, pos |-> pos]}
    ELSE {[n |-> sr.n, err |-> IF sr.eof THEN "EOF" ELSE "nil",
           N |-> N - sr.n, pos |-> pos + sr.n] :
            sr \in SourceReads(src, pos, IF buflen > N THEN N ELSE buflen)}

\* newLimitReadCloser(rc, limit): Reader is io.LimitReader(rc, limit).
newLimitReadCloser(rc, limit) ==
  [src |-> rc.src, N |-> limit, pos |-> rc.pos]

InitLimit ==
  /\ lsrc \in SeqsUpTo(Bytes, MaxSrc)
  /\ llimit \in 0..MaxLimit
  /\ lN = newLimitReadCloser([src |-> lsrc, pos |-> 0], llimit).N
  /\ lpos = newLimitReadCloser([src |-> lsrc, pos |-> 0], llimit).pos
  /\ lout = <<>>
  /\ lerr = "none"

\* One Read(p) of the wrapper by the consumer, for a buffer of buflen bytes.
LimitRead ==
  \E buflen \in 0..MaxBuf :
    \E r \in LimitedRead(lN, lpos, lsrc, buflen) :
      /\ lN' = r.N
      /\ lpos' = r.pos
      /\ lout' = lout \o SubSeq(lsrc, lpos + 1, lpos + r.n)
      /\ lerr' = r.err
      /\ UNCHANGED <<lsrc, llimit>>

\* ------------------------------------------------------------------------
\* Fetch, httpFetch, httpGet (utils.go:34-98, 138-175)
\* ------------------------------------------------------------------------
GlobalGatewayUrl == <<"https://ipfs.io">>

fetchSizeLimit == 536870912

NoErr == [origin |-> "nil", msg |-> <<>>]

Err(origin, msg) == [origin |-> origin, msg |-> msg]

NoStream == [src |-> <<>>, N |-> 0, pos |-> 0]

\* An ApiEndpoint that takes the second and fourth field.
ApiEndpointShifted(file) ==
  IF ~file.exists
    THEN [ep |-> <<>>, err |-> Err("ReadFile", <<"open api: no such file">>)]
    ELSE LET parts == Split(file.val, "/") IN
      IF Len(parts) /= 5
        THEN [ep |-> <<>>,
              err |-> Err("ApiFormat",
                          <<"incorrectly formatted api string: ">> \o file.val)]
        ELSE [ep |-> parts[2] \o <<":">> \o parts[4], err |-> NoErr]

\* ApiEndpoint(ipfspath): read <ipfspath>/api, split on "/", expect 5 fields.
ApiEndpoint(file) ==
  IF ~file.exists
    THEN [ep |-> <<>>, err |-> Err("ReadFile", <<"open api: no such file">>)]
    ELSE LET parts == Split(file.val, "/") IN
      IF Len(parts) /= 5
        THEN [ep |-> <<>>,
              err |-> Err("ApiFormat",
                          <<"incorrectly formatted api string: ">> \o file.val)]
        ELSE [ep |-> parts[3] \o <<":">> \o parts[5], err |-> NoErr]

\* resp.Status: the status line text of a status code.
Status(code) ==
  IF code = 200 THEN <<"2", "0", "0", " ", "O", "K">>
  ELSE <<"4", "0", "0", " ", "B", "a", "d", " ", "R", "e", "q", "u", "e", "s", "t">>

StatusCodes == {200, 400}

\* ---- inputs ----
GoodApi == <<"/", "i", "p", "4", "/", "h", "/", "t", "c", "p", "/", "5">>

ApiFiles ==
  { [exists |-> FALSE, val |-> <<>>],
    [exists |-> TRUE, val |-> GoodApi],
    [exists |-> TRUE, val |-> SubSeq(GoodApi, 1, 10)],
    [exists |-> TRUE, val |-> GoodApi \o <<"/", "x">>] }

\* contents of the discovery file for the calls of ApiEndpoint alone
ApiChars == {"/", "h", "5"}

ApiInputs ==
  ApiFiles \cup {[exists |-> TRUE, val |-> v] : v \in SeqsUpTo(ApiChars, MaxApiLen)}

Paths == {<<"/ipns/dist.ipfs.io">>}

\* values of the Content-Length header of the HEAD response: absent,
\* non-numeric, negative, and 0..MaxBody
CLHeaders ==
  {<<>>, <<"x">>, <<"-", "1">>} \cup {<<DigitChars[d + 1]>> : d \in 0..MaxBody}

Bodies == SeqsUpTo(Bytes, MaxBody)

NoHead == [state |-> "none", cl |-> <<>>, err |-> FALSE]

NoResp == [status |-> 0, body |-> <<>>]

NoRet == [stream |-> "none", err |-> NoErr, rc |-> NoStream]

FetchStart(files) ==
  /\ pc = "Fetch"
  /\ apiFile \in files
  /\ ipfspath \in Paths
  /\ ep = <<>>
  /\ discErr = NoErr
  /\ isUp = "unknown"
  /\ daemon = <<>>
  /\ url = <<>>
  /\ requests = <<>>
  /\ headResponse = NoHead
  /\ out = "none"
  /\ fileExists = FALSE
  /\ fileSize = 0
  /\ size = 0
  /\ resp = NoResp
  /\ bodyPos = 0
  /\ ret = NoRet
  /\ open = {}
  /\ rpc = "idle"
  /\ halt = FALSE
  /\ emitted = <<>>
  /\ got = <<>>
  /\ gotErr = "none"
  /\ closed = FALSE

InitFetch == FetchStart(ApiFiles)

\* Fetch line 161: "if err == nil" enters the daemon branch, otherwise the
\* code falls through to line 174.
AfterApiEndpoint(r) == IF r.err = NoErr THEN "IsUp" ELSE "httpFetch"

\* Fetch line 160: ep, err := ApiEndpoint(IpfsDir())
FetchApiEndpoint ==
  /\ pc = "Fetch"
  /\ LET r == ApiEndpoint(apiFile) IN
       /\ ep' = r.ep
       /\ discErr' = r.err
       /\ pc' = AfterApiEndpoint(r)
  /\ UNCHANGED <<apiFile, ipfspath, open, isUp, daemon, url, requests, headResponse,
                 out, fileExists, fileSize, size, resp, bodyPos, ret, rvars, cvars>>

\* Where Fetch goes after sh.IsUp() when it uses the gateway in every case.
AfterIsUpGateway(up) == "httpFetch"

\* Where Fetch goes after sh.IsUp() when it never falls back to the gateway.
AfterIsUpNoFallback(up) == "Cat"

\* Fetch line 163: "if sh.IsUp()" streams from the daemon, otherwise the
\* code falls through to line 174.
AfterIsUp(up) == IF up THEN "Cat" ELSE "httpFetch"

\* Fetch lines 162-163: sh := api.NewShell(ep); sh.IsUp()
FetchIsUp ==
  /\ pc = "IsUp"
  /\ \E up \in BOOLEAN :
       /\ isUp' = IF up THEN "up" ELSE "down"
       /\ pc' = AfterIsUp(up)
  /\ daemon' = Append(daemon, "IsUp")
  /\ UNCHANGED <<apiFile, ipfspath, open, ep, discErr, url, requests, headResponse,
                 out, fileExists, fileSize, size, resp, bodyPos, ret, rvars, cvars>>

\* Fetch lines 165-170: rc, err := sh.Cat(ipfspath); an error is returned to
\* the caller, a stream is wrapped by newLimitReadCloser.
FetchCat ==
  /\ pc = "Cat"
  /\ daemon' = Append(daemon, "Cat")
  /\ \E ok \in BOOLEAN, data \in Bodies :
       /\ ret' = IF ok
                   THEN [stream |-> "daemon", err |-> NoErr,
                         rc |-> newLimitReadCloser([src |-> data, pos |-> 0],
                                                   fetchSizeLimit)]
                   ELSE [stream |-> "nil", err |-> Err("Cat", <<"cat failed">>),
                         rc |-> NoStream]
       /\ open' = IF ok THEN open \cup {"daemon"} ELSE open
  /\ pc' = "returned"
  /\ UNCHANGED <<apiFile, ipfspath, ep, discErr, isUp, url, requests,
                 headResponse, out, fileExists, fileSize, size, resp, bodyPos,
                 rvars, cvars>>

\* Fetch line 174 and httpFetch line 140:
\* httpFetch(GlobalGatewayUrl + ipfspath) calls httpGet(url).
FetchHttpFetch ==
  /\ pc = "httpFetch"
  /\ url' = GlobalGatewayUrl \o ipfspath
  /\ pc' = "Head"
  /\ UNCHANGED <<apiFile, ipfspath, open, ep, discErr, isUp, daemon, requests,
                 headResponse, out, fileExists, fileSize, size, resp, bodyPos,
                 ret, rvars, cvars>>

\* httpGet line 52: headResponse, err := http.Head(url).  The request either
\* succeeds, or fails with a nil response (connection refused, ...), or fails
\* with a non-nil response (redirect limit, its body already closed).  err
\* is overwritten at line 54 before it is looked at.
HttpHead ==
  /\ pc = "Head"
  /\ requests' = Append(requests, "HEAD")
  /\ \E st \in {"resp", "nil"}, failed \in BOOLEAN, cl \in CLHeaders :
       /\ st = "nil" => (failed /\ cl = <<>>)
       /\ headResponse' = [state |-> st, cl |-> cl, err |-> failed]
       /\ open' = IF st = "resp" /\ ~failed THEN open \cup {"head"} ELSE open
  /\ pc' = "TempFile"
  /\ UNCHANGED <<apiFile, ipfspath, ep, discErr, isUp, daemon, url, out,
                 fileExists, fileSize, size, resp, bodyPos, ret, rvars, cvars>>

\* httpGet lines 54-61: out, err := ioutil.TempFile(...);
\* defer os.Remove(out.Name()) evaluates out.Name() at once, which
\* dereferences the nil *os.File when TempFile failed: the "err != nil"
\* test of line 57 is only reached with err == nil.
HttpTempFile ==
  /\ pc = "TempFile"
  /\ \E ok \in BOOLEAN :
       IF ok
         THEN /\ out' = "open"
              /\ fileExists' = TRUE
              /\ fileSize' = 0
              /\ pc' = "ContentLength"
         ELSE /\ pc' = "panic"
              /\ UNCHANGED <<out, fileExists, fileSize>>
  /\ UNCHANGED <<apiFile, ipfspath, open, ep, discErr, isUp, daemon, url, requests,
                 headResponse, size, resp, bodyPos, ret, rvars, cvars>>

\* The deferred calls of httpGet, run when it returns or panics after line
\* 61: out.Close(), then os.Remove(out.Name()).
DeferredOut == "closed"

\* A return of httpGet that leaves the temporary file on disk.
DeferredFileKept == TRUE

DeferredFileExists == FALSE

\* An httpGet that carries on, with size 0, when the Content-Length cannot
\* be parsed.
HttpContentLengthLenient ==
  /\ pc = "ContentLength"
  /\ IF headResponse.state = "nil"
       THEN /\ pc' = "panic"
            /\ UNCHANGED <<size, ret>>
       ELSE LET a == Atoi(headResponse.cl) IN
         IF ~a.ok
           THEN /\ pc' = "go"
                /\ UNCHANGED <<size, ret>>
           ELSE /\ pc' = "go"
                /\ size' = a.val
                /\ UNCHANGED ret
  /\ out' = IF pc' = "go" THEN out ELSE DeferredOut
  /\ fileExists' = IF pc' = "go" THEN fileExists ELSE DeferredFileExists
  /\ open' = IF pc' = "go" THEN open \ {"head"} ELSE open
  /\ UNCHANGED <<apiFile, ipfspath, ep, discErr, isUp, daemon, url, requests,
                 headResponse, fileSize, resp, bodyPos, rvars, cvars>>

\* httpGet lines 63-69: size, err := strconv.Atoi(headResponse.Header.Get(
\* "Content-Length")): a nil headResponse is dereferenced (panic); an absent
\* or non-numeric header makes httpGet, httpFetch and Fetch return the error;
\* otherwise headResponse.Body.Close() (line 69).
HttpContentLength ==
  /\ pc = "ContentLength"
  /\ IF headResponse.state = "nil"
       THEN /\ pc' = "panic"
            /\ UNCHANGED <<size, ret>>
       ELSE LET a == Atoi(headResponse.cl) IN
         IF ~a.ok
           THEN /\ pc' = "returned"
                /\ ret' = [stream |-> "nil",
                           err |-> Err("ContentLength",
                                       <<"http.Head Content-Length error: ">>),
                           rc |-> NoStream]
                /\ UNCHANGED size
           ELSE /\ pc' = "go"
                /\ size' = a.val
                /\ UNCHANGED ret
  /\ out' = IF pc' = "go" THEN out ELSE DeferredOut
  /\ fileExists' = IF pc' = "go" THEN fileExists ELSE DeferredFileExists
  /\ open' = IF pc' = "go" THEN open \ {"head"} ELSE open
  /\ UNCHANGED <<apiFile, ipfspath, ep, discErr, isUp, daemon, url, requests,
                 headResponse, fileSize, resp, bodyPos, rvars, cvars>>

\* httpGet lines 71-80: done := make(chan int64);
\* go PrintProgress(done, out.Name(), int64(size)); then the GET request is
\* built (http.NewRequest cannot fail here: http.Head has built a request
\* from the same url) and its User-Agent set.
HttpGoPrintProgress ==
  /\ pc = "go"
  /\ rpc' = "select"
  /\ pc' = "Do"
  /\ UNCHANGED <<apiFile, ipfspath, open, ep, discErr, isUp, daemon, url, requests,
                 headResponse, out, fileExists, fileSize, size, resp, bodyPos,
                 ret, halt, emitted, cvars>>

\* An httpGet that issues the GET request again when it failed.
HttpDoRetry ==
  /\ pc = "Do"
  /\ requests' = Append(requests, "GET")
  /\ \E ok \in BOOLEAN, st \in StatusCodes, body \in Bodies :
       IF ok
         THEN /\ resp' = [status |-> st, body |-> body]
              /\ pc' = "Copy"
              /\ open' = open \cup {"get"}
              /\ UNCHANGED <<ret, out, fileExists>>
         ELSE /\ pc' = "Do"
              /\ UNCHANGED <<ret, out, fileExists, resp, open>>
  /\ UNCHANGED <<apiFile, ipfspath, ep, discErr, isUp, daemon, url,
                 headResponse, fileSize, size, bodyPos, rvars, cvars>>

\* httpGet lines 82-85: resp, err := http.DefaultClient.Do(req); on an error
\* httpGet, httpFetch and Fetch return it (the deferred calls run).
HttpDo ==
  /\ pc = "Do"
  /\ requests' = Append(requests, "GET")
  /\ \E ok \in BOOLEAN, st \in StatusCodes, body \in Bodies :
       IF ok
         THEN /\ resp' = [status |-> st, body |-> body]
              /\ pc' = "Copy"
              /\ open' = open \cup {"get"}
              /\ UNCHANGED <<ret, out, fileExists>>
         ELSE /\ pc' = "returned"
              /\ ret' = [stream |-> "nil",
                         err |-> Err("Do", <<"http.DefaultClient.Do error: ">>),
                         rc |-> NoStream]
              /\ out' = DeferredOut
              /\ fileExists' = DeferredFileExists
              /\ UNCHANGED <<resp, open>>
  /\ UNCHANGED <<apiFile, ipfspath, ep, discErr, isUp, daemon, url,
                 headResponse, fileSize, size, bodyPos, rvars, cvars>>

\* httpGet line 88, one round of io.Copy(out, resp.Body): k bytes are read
\* from the body and written to the temporary file.
HttpCopyChunk ==
  /\ pc = "Copy"
  /\ bodyPos < Len(resp.body)
  /\ \E k \in 1..(Len(resp.body) - bodyPos) :
       /\ bodyPos' = bodyPos + k
       /\ fileSize' = fileSize + k
  /\ UNCHANGED <<pc, apiFile, ipfspath, open, ep, discErr, isUp, daemon, url,
                 requests, headResponse, out, fileExists, size, resp, ret,
                 rvars, cvars>>

\* httpGet lines 88-93: io.Copy fails (a read error of the body or a write
\* error of the file); httpGet, httpFetch and Fetch return the error.
HttpCopyFail ==
  /\ pc = "Copy"
  /\ pc' = "returned"
  /\ ret' = [stream |-> "nil",
             err |-> Err("Copy", <<"Error writing temp file to disk: ">>),
             rc |-> NoStream]
  /\ out' = DeferredOut
  /\ fileExists' = DeferredFileExists
  /\ UNCHANGED <<apiFile, ipfspath, open, ep, discErr, isUp, daemon, url, requests,
                 headResponse, fileSize, size, resp, bodyPos, rvars, cvars>>

\* A copy that signals completion although bytes of the body are still to be
\* written.
HttpCopyDoneEarly ==
  /\ pc = "Copy"
  /\ pc' = "send"
  /\ UNCHANGED <<apiFile, ipfspath, open, ep, discErr, isUp, daemon, url, requests,
                 headResponse, out, fileExists, fileSize, size, resp, bodyPos,
                 ret, rvars, cvars>>

\* httpGet lines 88-95: io.Copy reaches the end of the body and returns; the
\* main task then offers n on the unbuffered channel done and waits for the
\* reporter to take it.
HttpCopyDone ==
  /\ pc = "Copy"
  /\ bodyPos = Len(resp.body)
  /\ pc' = "send"
  /\ UNCHANGED <<apiFile, ipfspath, open, ep, discErr, isUp, daemon, url, requests,
                 headResponse, out, fileExists, fileSize, size, resp, bodyPos,
                 ret, rvars, cvars>>

\* httpGet line 97: return resp, nil, once the send of line 95 has been
\* taken; the deferred calls close and remove the temporary file.
HttpGetReturn ==
  /\ pc = "sent"
  /\ pc' = "Status"
  /\ out' = DeferredOut
  /\ fileExists' = DeferredFileExists
  /\ UNCHANGED <<apiFile, ipfspath, open, ep, discErr, isUp, daemon, url, requests,
                 headResponse, fileSize, size, resp, bodyPos, ret, rvars, cvars>>

\* ioutil.ReadAll(resp.Body): the bytes of the body not read yet.
ReadAll(body, pos) == SubSeq(body, pos + 1, Len(body))

\* httpFetch line 145: resp.StatusCode >= 400
IsErrorStatus(code) == code >= 400

\* httpFetch lines 145-155: an error status returns the error
\* "<status>: <rest of the body>", any other status returns the body wrapped
\* by newLimitReadCloser; Fetch returns what httpFetch returns.
HttpFetchStatus ==
  /\ pc = "Status"
  /\ pc' = "returned"
  /\ ret' = IF IsErrorStatus(resp.status)
              THEN [stream |-> "nil",
                    err |-> Err("Status",
                                Status(resp.status) \o <<":", " ">>
                                  \o ReadAll(resp.body, bodyPos)),
                    rc |-> NoStream]
              ELSE [stream |-> "gateway", err |-> NoErr,
                    rc |-> newLimitReadCloser(
                             [src |-> resp.body, pos |-> bodyPos],
                             fetchSizeLimit)]
  /\ bodyPos' = IF IsErrorStatus(resp.status) THEN Len(resp.body) ELSE bodyPos
  /\ UNCHANGED <<apiFile, ipfspath, open, ep, discErr, isUp, daemon, url, requests,
                 headResponse, out, fileExists, fileSize, size, resp, rvars, cvars>>

\* ------------------------------------------------------------------------
\* PrintProgress (utils.go:100-136)
\* ------------------------------------------------------------------------

\* num/den rounded to the nearest integer, ties to even (den /= 0):
\* the "%.0f" formatting.
RoundHalfEven(num, den) ==
  LET n == IF den < 0 THEN 0 - num ELSE num
      d == IF den < 0 THEN 0 - den ELSE den
      q == n \div d
      r == n % d
  IN IF 2 * r < d THEN q
     ELSE IF 2 * r > d THEN q + 1
     ELSE IF q % 2 = 0 THEN q ELSE q + 1

\* A percentage that counts what is left instead of what is there.
PercentRemaining(sz, total) ==
  IF total = 0 THEN [kind |-> "inf", val |-> 0]
  ELSE [kind |-> "pct", val |-> RoundHalfEven(100 * (total - sz), total)]

\* PrintProgress lines 118-126: a size of 0 counts as 1;
\* percent = float64(size) / float64(total) * 100, printed with "%.0f"
\* (a total of 0 gives +Inf).
Percent(sz, total) ==
  LET s1 == IF sz = 0 THEN 1 ELSE sz IN
    IF total = 0 THEN [kind |-> "inf", val |-> 0]
    ELSE [kind |-> "pct", val |-> RoundHalfEven(100 * s1, total)]

COMPLETE == [kind |-> "COMPLETE", val |-> 0]

\* PrintProgress lines 104-106: "case <-done" is taken when the main task is
\* waiting in its send; halt = true.  The receive releases the main task.
ReporterReceive ==
  /\ rpc = "select"
  /\ pc = "send"
  /\ halt' = TRUE
  /\ rpc' = "halted"
  /\ pc' = "sent"
  /\ UNCHANGED <<apiFile, ipfspath, open, ep, discErr, isUp, daemon, url, requests,
                 headResponse, out, fileExists, fileSize, size, resp, bodyPos,
                 ret, emitted, cvars>>

\* PrintProgress lines 107-126: the default case, taken when no send is
\* waiting: os.Open and file.Stat, either of which may fail (and os.Open
\* does fail once the file is removed), which ends the reporter; otherwise
\* the percentage is printed (emitted keeps the first MaxSamples of them).
ReporterSample ==
  /\ rpc = "select"
  /\ pc /= "send"
  /\ \E readable \in BOOLEAN :
       /\ readable => fileExists
       /\ IF readable
            THEN /\ emitted' = IF Len(emitted) < MaxSamples
                                 THEN Append(emitted, Percent(fileSize, size))
                                 ELSE emitted
                 /\ rpc' = "sleep"
            ELSE /\ rpc' = "exited"
                 /\ UNCHANGED emitted
  /\ UNCHANGED <<mvars, halt, cvars>>

\* PrintProgress lines 129-132: if halt, print COMPLETE and leave the loop.
ReporterComplete ==
  /\ rpc = "halted"
  /\ emitted' = Append(emitted, COMPLETE)
  /\ rpc' = "done"
  /\ UNCHANGED <<mvars, halt, cvars>>

\* PrintProgress line 134: time.Sleep(time.Second), then the next round.
ReporterSleep ==
  /\ rpc = "sleep"
  /\ rpc' = "select"
  /\ UNCHANGED <<mvars, halt, emitted, cvars>>

\* ------------------------------------------------------------------------
\* The caller of Fetch using the returned limitReadCloser (utils.go:177-187)
\* ------------------------------------------------------------------------

\* One Read of the returned wrapper, until it has answered EOF: the embedded
\* io.LimitReader reads from the daemon stream or from resp.Body where it
\* stands.
ConsumerRead ==
  /\ pc = "returned"
  /\ ret.stream \in {"daemon", "gateway"}
  /\ ~closed
  /\ gotErr /= "EOF"
  /\ \E buflen \in 1..MaxBuf :
       \E r \in LimitedRead(ret.rc.N, ret.rc.pos, ret.rc.src, buflen) :
         /\ ret' = [ret EXCEPT !.rc = [src |-> ret.rc.src, N |-> r.N,
                                       pos |-> r.pos]]
         /\ got' = got \o SubSeq(ret.rc.src, ret.rc.pos + 1, ret.rc.pos + r.n)
         /\ gotErr' = r.err
         /\ bodyPos' = IF ret.stream = "gateway" THEN r.pos ELSE bodyPos
  /\ UNCHANGED <<pc, apiFile, ipfspath, open, ep, discErr, isUp, daemon, url,
                 requests, headResponse, out, fileExists, fileSize, size, resp,
                 rvars, closed>>

\* Close of the returned wrapper: its Closer is the wrapped stream itself.
ConsumerClose ==
  /\ pc = "returned"
  /\ ret.stream \in {"daemon", "gateway"}
  /\ ~closed
  /\ closed' = TRUE
  /\ open' = open \ {IF ret.stream = "daemon" THEN "daemon" ELSE "get"}
  /\ UNCHANGED <<pc, apiFile, ipfspath, ep, discErr, isUp, daemon, url,
                 requests, headResponse, out, fileExists, fileSize, size, resp,
                 bodyPos, ret, rvars, got, gotErr>>

\* ------------------------------------------------------------------------
\* RunCmd (utils.go:234-246)
\* ------------------------------------------------------------------------
OutChars == {"a", "b", "\n"}

\* the text of the error of cmd.CombinedOutput()
CmdErrText == <<"exit status 1">>

NoRun == [state |-> "none", out |-> <<>>, msg |-> <<>>]

\* RunCmd after cmd.CombinedOutput() gave (out, err): with an error, the
\* error "<err>: <out>"; otherwise out[len(out)-1] is looked at, which panics
\* on an empty out, and one trailing newline is cut.
RunCmd(o, failed) ==
  IF failed
    THEN [state |-> "error", out |-> <<>>,
          msg |-> CmdErrText \o <<":", " ">> \o o]
  ELSE IF Len(o) = 0
    THEN [state |-> "panic", out |-> <<>>, msg |-> <<>>]
  ELSE IF o[Len(o)] = "\n"
    THEN [state |-> "ok", out |-> SubSeq(o, 1, Len(o) - 1), msg |-> <<>>]
  ELSE [state |-> "ok", out |-> o, msg |-> <<>>]

InitRunCmd ==
  /\ cmdOut \in SeqsUpTo(OutChars, MaxOut)
  /\ cmdFail \in BOOLEAN
  /\ runRet = NoRun

CallRunCmd ==
  /\ runRet = NoRun
  /\ runRet' = RunCmd(cmdOut, cmdFail)
  /\ UNCHANGED <<cmdOut, cmdFail>>

\* ------------------------------------------------------------------------
\* Specifications
\* ------------------------------------------------------------------------
IdleVersion == check = <<>> /\ cur = <<>> /\ vres = "idle"
IdleLimit == lsrc = <<>> /\ llimit = 0 /\ lN = 0 /\ lpos = 0 /\ lout = <<>> /\ lerr = "idle"

NextVersion == CallBeforeVersion /\ UNCHANGED <<lvars, fvars, cmdvars>>

IdleFetch ==
  /\ pc = "idle" /\ apiFile = [exists |-> FALSE, val |-> <<>>]
  /\ ipfspath = <<>> /\ ep = <<>> /\ discErr = NoErr /\ isUp = "unknown"
  /\ daemon = <<>> /\ url = <<>> /\ requests = <<>> /\ headResponse = NoHead
  /\ out = "none" /\ fileExists = FALSE /\ fileSize = 0 /\ size = 0
  /\ resp = NoResp /\ bodyPos = 0 /\ ret = NoRet /\ open = {}
  /\ rpc = "idle" /\ halt = FALSE /\ emitted = <<>>
  /\ got = <<>> /\ gotErr = "none" /\ closed = FALSE

IdleCmd == cmdOut = <<>> /\ cmdFail = FALSE /\ runRet = [state |-> "idle", out |-> <<>>, msg |-> <<>>]

InitV == InitVersion /\ IdleLimit /\ IdleFetch /\ IdleCmd

SpecVersion == InitV /\ [][NextVersion]_vars

NextLimit == LimitRead /\ UNCHANGED <<vvars, fvars, cmdvars>>

InitL == InitLimit /\ IdleVersion /\ IdleFetch /\ IdleCmd

SpecLimit == InitL /\ [][NextLimit]_vars

InitF == InitFetch /\ IdleVersion /\ IdleLimit /\ IdleCmd

NextFetch ==
  \/ FetchApiEndpoint /\ UNCHANGED <<vvars, lvars, cmdvars>>
  \/ FetchIsUp /\ UNCHANGED <<vvars, lvars, cmdvars>>
  \/ FetchCat /\ UNCHANGED <<vvars, lvars, cmdvars>>
  \/ FetchHttpFetch /\ UNCHANGED <<vvars, lvars, cmdvars>>
  \/ HttpHead /\ UNCHANGED <<vvars, lvars, cmdvars>>
  \/ HttpTempFile /\ UNCHANGED <<vvars, lvars, cmdvars>>
  \/ HttpContentLength /\ UNCHANGED <<vvars, lvars, cmdvars>>
  \/ HttpGoPrintProgress /\ UNCHANGED <<vvars, lvars, cmdvars>>
  \/ HttpDo /\ UNCHANGED <<vvars, lvars, cmdvars>>
  \/ HttpCopyChunk /\ UNCHANGED <<vvars, lvars, cmdvars>>
  \/ HttpCopyFail /\ UNCHANGED <<vvars, lvars, cmdvars>>
  \/ HttpCopyDone /\ UNCHANGED <<vvars, lvars, cmdvars>>
  \/ HttpGetReturn /\ UNCHANGED <<vvars, lvars, cmdvars>>
  \/ HttpFetchStatus /\ UNCHANGED <<vvars, lvars, cmdvars>>
  \/ ReporterReceive /\ UNCHANGED <<vvars, lvars, cmdvars>>
  \/ ReporterSample /\ UNCHANGED <<vvars, lvars, cmdvars>>
  \/ ReporterComplete /\ UNCHANGED <<vvars, lvars, cmdvars>>
  \/ ReporterSleep /\ UNCHANGED <<vvars, lvars, cmdvars>>
  \/ ConsumerRead /\ UNCHANGED <<vvars, lvars, cmdvars>>
  \/ ConsumerClose /\ UNCHANGED <<vvars, lvars, cmdvars>>

SpecFetch == InitF /\ [][NextFetch]_vars

\* The steps of the main goroutine and of the reporter goroutine; the Go
\* scheduler lets each runnable goroutine take its next step eventually.
MainStep ==
  /\ \/ FetchApiEndpoint \/ FetchIsUp \/ FetchCat \/ FetchHttpFetch
     \/ HttpHead \/ HttpTempFile \/ HttpContentLength \/ HttpGoPrintProgress
     \/ HttpDo \/ HttpCopyChunk \/ HttpCopyFail \/ HttpCopyDone
     \/ HttpGetReturn \/ HttpFetchStatus
  /\ UNCHANGED <<vvars, lvars, cmdvars>>

ReporterStep ==
  /\ ReporterReceive \/ ReporterSample \/ ReporterComplete \/ ReporterSleep
  /\ UNCHANGED <<vvars, lvars, cmdvars>>

FairSpecFetch ==
  InitF /\ [][NextFetch]_vars /\ WF_vars(MainStep) /\ WF_vars(ReporterStep)

InitR == InitRunCmd /\ IdleVersion /\ IdleLimit /\ IdleFetch

NextRunCmd == CallRunCmd /\ UNCHANGED <<vvars, lvars, fvars>>

SpecRunCmd == InitR /\ [][NextRunCmd]_vars

\* ApiEndpoint alone, over a wider range of discovery files
InitA == FetchStart(ApiInputs) /\ IdleVersion /\ IdleLimit /\ IdleCmd

NextApi == FetchApiEndpoint /\ UNCHANGED <<vvars, lvars, cmdvars>>

SpecApi == InitA /\ [][NextApi]_vars

\* ------------------------------------------------------------------------
\* Properties of BeforeVersion
\* ------------------------------------------------------------------------
Called == vres /= "none" /\ vres /= "idle"

\* three dot-separated components after the prefix character
ThreeComps(v) == v /= <<>> /\ Len(Split(Tail(v), ".")) = 3

Comp(v, i) == Split(Tail(v), ".")[i]

IsNatural(c) == c /= <<>> /\ \A i \in 1..Len(c) : IsDigit(c[i])

Num(c) == DigitsVal(c, 0)

\* prefix character followed by three dot-separated non-negative integers
WellFormed(v) == ThreeComps(v) /\ \A i \in 1..3 : IsNatural(Comp(v, i))

\* a precedes b at the first component where they differ
Precedes(a, b) ==
  \E i \in 1..3 :
    /\ \A j \in 1..(i - 1) : Num(Comp(a, j)) = Num(Comp(b, j))
    /\ Num(Comp(a, i)) < Num(Comp(b, i))

V123 == <<"v", "1", ".", "2", ".", "3">>
V124 == <<"v", "1", ".", "2", ".", "4">>
V200 == <<"v", "2", ".", "0", ".", "0">>
V199 == <<"v", "1", ".", "9", ".", "9">>

\* C6 (as stated): for well-formed versions, BeforeVersion(candidate, current)
\* is true exactly when candidate's number is the smaller at the first
\* differing component; BeforeVersion("v1.2.3", "v1.2.4") is true and
\* BeforeVersion("v2.0.0", "v1.9.9") is false.
C6_CandidateSmallerIsTrue ==
  (Called /\ WellFormed(check) /\ WellFormed(cur)) =>
    /\ (vres = "true") <=> Precedes(check, cur)
    /\ vres \in {"true", "false"}
    /\ (check = V123 /\ cur = V124) => vres = "true"
    /\ (check = V200 /\ cur = V199) => vres = "false"

\* C6 (amended): for well-formed versions, BeforeVersion(candidate, current)
\* is true exactly when current's number is the smaller at the first
\* differing component, and false otherwise (candidate's smaller there, or
\* all three equal); BeforeVersion("v1.2.3", "v1.2.4") is false and
\* BeforeVersion("v2.0.0", "v1.9.9") is true.
C6_CurrentSmallerIsTrue ==
  (Called /\ WellFormed(check) /\ WellFormed(cur)) =>
    /\ (vres = "true") <=> Precedes(cur, check)
    /\ vres \in {"true", "false"}
    /\ (check = V123 /\ cur = V124) => vres = "false"
    /\ (check = V200 /\ cur = V199) => vres = "true"

C6_Witness == Called /\ check = V200 /\ cur = V199 /\ vres = "true"

\* C7: for three-component versions of which some component is non-numeric,
\* BeforeVersion returns false, wherever the non-numeric component stands.
C7_NonNumericIsFalse ==
  (/\ Called
   /\ ThreeComps(check) /\ ThreeComps(cur)
   /\ \E i \in 1..3 : ~Atoi(Comp(check, i)).ok \/ ~Atoi(Comp(cur, i)).ok)
    => vres = "false"

\* C8: for every pair of input strings, malformed ones included,
\* BeforeVersion ends with a boolean and never panics.
C8_NeverPanics == Called => vres \in {"true", "false"}

\* C9: for every well-formed version v, BeforeVersion(v, v) is false.
C9_Irreflexive == (Called /\ WellFormed(check) /\ cur = check) => vres = "false"

C9_Witness == Called /\ WellFormed(check) /\ cur = check /\ check = V123

\* ------------------------------------------------------------------------
\* Properties of limitReadCloser
\* ------------------------------------------------------------------------

\* C5: draining newLimitReadCloser(source, N) by any sequence of reads
\* delivers a prefix of the source of at most N bytes and never an error;
\* once end-of-stream is signalled, exactly the first N bytes have been
\* delivered when the source is longer than N, and the whole source otherwise.
C5_DeliversFirstN ==
  lerr /= "idle" =>
    /\ lerr /= "error"
    /\ Len(lout) <= Min(llimit, Len(lsrc))
    /\ lout = SubSeq(lsrc, 1, Len(lout))
    /\ lerr = "EOF" =>
         lout = (IF Len(lsrc) > llimit THEN SubSeq(lsrc, 1, llimit) ELSE lsrc)

C5_Witness ==
  /\ lerr = "EOF"
  /\ llimit > 0
  /\ Len(lsrc) > llimit
  /\ lout = SubSeq(lsrc, 1, llimit)

\* ------------------------------------------------------------------------
\* Properties of Fetch, httpFetch, httpGet
\* ------------------------------------------------------------------------
Contains(s, sub) ==
  \E i \in 0..(Len(s) - Len(sub)) : SubSeq(s, i + 1, i + Len(sub)) = sub

Returned == pc = "returned"

DiscoveryFailed == pc /= "Fetch" /\ discErr /= NoErr

\* C1: in a call of Fetch in which ApiEndpoint resolves an endpoint and IsUp
\* succeeds, no request (HEAD or GET) is ever issued to the gateway, whether
\* Cat then succeeds or fails.
C1_NoGatewayWhenDaemonUp ==
  (discErr = NoErr /\ isUp = "up") =>
    /\ requests = <<>>
    /\ url = <<>>
    /\ pc \in {"Cat", "returned"}
    /\ Returned => ret.stream = "daemon" \/ ret.err.origin = "Cat"

C1_Witness ==
  /\ Returned /\ discErr = NoErr /\ isUp = "up"
  /\ daemon = <<"IsUp", "Cat">>
  /\ ret.stream = "nil" /\ ret.err.origin = "Cat"

\* C2: in a call of Fetch in which discovery fails (file missing or not of
\* the 5-field shape) or IsUp fails, Fetch goes on to httpFetch on
\* GlobalGatewayUrl + ipfspath (never to Cat), the gateway is sent the HEAD
\* request, and the error of the discovery/probe step is never the error
\* returned to the caller.
C2_FallbackToGateway ==
  (DiscoveryFailed \/ isUp = "down") =>
    /\ pc /= "Cat"
    /\ ~Contains(daemon, <<"Cat">>)
    /\ pc /= "httpFetch" => url = GlobalGatewayUrl \o ipfspath
    /\ pc \in {"returned", "panic"} => (requests /= <<>> /\ requests[1] = "HEAD")
    /\ Returned =>
         /\ ret.err.origin \notin {"ReadFile", "ApiFormat", "IsUp"}
         /\ DiscoveryFailed => ret.err /= discErr

C2_Witness ==
  /\ Returned /\ discErr.origin = "ApiFormat"
  /\ url = GlobalGatewayUrl \o ipfspath
  /\ requests = <<"HEAD", "GET">>
  /\ ret.stream = "gateway"

\* C3: for every gateway transfer whose GET response has status >= 400 (and
\* whose copy did not fail), httpFetch returns no stream and an error whose
\* message contains the response status and the text of the response body,
\* for every body.
C3_ErrorStatusCarriesBody ==
  (Returned /\ resp /= NoResp /\ resp.status >= 400 /\ ret.err.origin /= "Copy") =>
    /\ ret.stream = "nil"
    /\ Contains(ret.err.msg, Status(resp.status))
    /\ Contains(ret.err.msg, resp.body)

\* C4: in httpGet a failure of the HEAD request, of the initiation of the
\* GET request, or of the copy makes httpGet return a nil response and an
\* error describing the failing step; none leads to a crash or to httpGet
\* carrying on.  (Stated for the runs in which the temporary file could be
\* created.)
C4_StepFailureIsReturned ==
  /\ (headResponse.err /\ out /= "none") =>
       \/ pc = "ContentLength"
       \/ Returned /\ ret.stream = "nil" /\ ret.err.origin = "Head"
  /\ (pc = "panic" /\ out /= "none") => ~headResponse.err
  /\ ret.err.origin \in {"Do", "Copy"} => (Returned /\ ret.stream = "nil")

\* ------------------------------------------------------------------------
\* Properties of PrintProgress
\* ------------------------------------------------------------------------
IsPct(e) == e.kind = "pct"

\* C10: with an expected size T > 0 and a file that stays readable for the
\* reporter, under every interleaving of the copy and the reporter the
\* percentages printed are non-decreasing, COMPLETE is printed at most once,
\* nothing is printed after it, and a reporter that has finished has COMPLETE
\* as the last thing printed.
C10_ReporterOutput ==
  (size > 0 /\ rpc /= "exited") =>
    /\ \A i \in 1..Len(emitted) : emitted[i] = COMPLETE \/ IsPct(emitted[i])
    /\ \A i, j \in 1..Len(emitted) :
         (i < j /\ IsPct(emitted[i]) /\ IsPct(emitted[j]))
           => emitted[i].val <= emitted[j].val
    /\ \A i \in 1..Len(emitted) : emitted[i] = COMPLETE => i = Len(emitted)
    /\ rpc = "done" => (emitted /= <<>> /\ emitted[Len(emitted)] = COMPLETE)
    /\ (rpc /= "done" /\ emitted /= <<>>) => emitted[Len(emitted)] /= COMPLETE

C10_Witness ==
  /\ rpc = "done"
  /\ size = 3 /\ Len(resp.body) = 3 /\ fileSize = 3
  /\ Len(emitted) = 4
  /\ emitted[1].val < emitted[2].val
  /\ emitted[2].val < emitted[3].val
  /\ emitted[4] = COMPLETE

\* C11: the completion signal is offered on done only after the copy of the
\* response body into the temporary file has finished: whenever the main
\* task is past its send, or the reporter has taken the signal or printed
\* COMPLETE, all bytes of the body have been written to the temporary file
\* and the copy has not failed.
C11_CompleteAfterCopy ==
  (\/ pc \in {"send", "sent"}
   \/ halt
   \/ Contains(emitted, <<COMPLETE>>)) =>
    /\ resp /= NoResp
    /\ bodyPos = Len(resp.body)
    /\ fileSize = Len(resp.body)
    /\ ret.err.origin /= "Copy"
    /\ pc \in {"send", "sent", "Status", "returned"}

C11_Witness ==
  /\ Contains(emitted, <<COMPLETE>>)
  /\ Len(resp.body) = 3
  /\ fileSize = 3
  /\ Len(emitted) >= 2

\* C12: a reporter that stopped on a failed sample does not block the main
\* task: the main task is never left waiting in its send on done for a
\* reporter that has already exited (a wait that no receive can end, so that
\* httpGet would never return).  Stated for the runs whose HEAD request
\* succeeded.
C12_ExitedReporterNeverBlocksSend ==
  ~headResponse.err => ~(rpc = "exited" /\ pc = "send")

\* ------------------------------------------------------------------------
\* Properties of ApiEndpoint
\* ------------------------------------------------------------------------
SlashAt(v) == {i \in 1..Len(v) : v[i] = "/"}

\* the position of the k-th "/" of v
SlashPos(v, k) ==
  CHOOSE i \in SlashAt(v) : Cardinality({j \in SlashAt(v) : j <= i}) = k

\* readable, and four separators: five fields
FiveFields(f) == f.exists /\ Cardinality(SlashAt(f.val)) = 4

HostOf(v) == SubSeq(v, SlashPos(v, 2) + 1, SlashPos(v, 3) - 1)

PortOf(v) == SubSeq(v, SlashPos(v, 4) + 1, Len(v))

\* C13: ApiEndpoint returns an endpoint exactly when the discovery file is
\* readable and has five "/"-separated fields, and the endpoint is then the
\* third field, ":", the fifth field; otherwise it returns an error and the
\* empty endpoint.
C13_EndpointIffFiveFields ==
  pc \notin {"Fetch", "idle"} =>
    /\ (discErr = NoErr) <=> FiveFields(apiFile)
    /\ FiveFields(apiFile) =>
         ep = HostOf(apiFile.val) \o <<":">> \o PortOf(apiFile.val)
    /\ ~FiveFields(apiFile) => (ep = <<>> /\ discErr /= NoErr)

C13_Witness ==
  /\ pc = "IsUp"
  /\ apiFile = [exists |-> TRUE, val |-> <<"/", "/", "h", "/", "/", "5">>]
  /\ ep = <<"h", ":", "5">>

\* ------------------------------------------------------------------------
\* Properties of RunCmd
\* ------------------------------------------------------------------------

\* C14: RunCmd never crashes; when the command fails it returns an error
\* whose message embeds the underlying error and the captured output; when
\* the command succeeds it returns, for every captured output including the
\* empty one, the output with one trailing newline removed when present.
C14_RunCmdResult ==
  runRet.state \notin {"none", "idle"} =>
    /\ runRet.state /= "panic"
    /\ cmdFail =>
         /\ runRet.state = "error"
         /\ Contains(runRet.msg, CmdErrText)
         /\ Contains(runRet.msg, cmdOut)
    /\ ~cmdFail =>
         /\ runRet.state = "ok"
         /\ runRet.out = (IF cmdOut /= <<>> /\ cmdOut[Len(cmdOut)] = "\n"
                            THEN SubSeq(cmdOut, 1, Len(cmdOut) - 1)
                            ELSE cmdOut)

\* ------------------------------------------------------------------------
\* Further properties of httpGet and Fetch
\* ------------------------------------------------------------------------
BadContentLength ==
  headResponse.state = "resp" /\ ~Atoi(headResponse.cl).ok

IsPrefix(s, t) == Len(s) <= Len(t) /\ s = SubSeq(t, 1, Len(s))

\* C16: within one call of Fetch nothing is retried: the gateway requests
\* issued are a prefix of (HEAD, GET), and the daemon calls a prefix of
\* (IsUp, Cat).
C16_NoRetry ==
  /\ IsPrefix(requests, <<"HEAD", "GET">>)
  /\ IsPrefix(daemon, <<"IsUp", "Cat">>)

C16_Witness ==
  /\ Returned
  /\ ret.err.origin = "Do"
  /\ requests = <<"HEAD", "GET">>
  /\ daemon = <<"IsUp">>

\* C17: when a gateway transfer succeeds, the stream Fetch returns delivers,
\* when drained, the bytes of the gateway's response body (up to the size
\* ceiling).
C17_GatewayStreamDeliversBody ==
  (Returned /\ ret.stream = "gateway" /\ gotErr = "EOF") =>
    got = Take(resp.body, fetchSizeLimit)

\* C19: whenever Fetch has returned an error, every response body or daemon
\* stream the call opened has been closed; whenever it has returned a stream,
\* exactly one underlying resource is open until the caller closes the
\* wrapper, and none after.
C19_NoOpenBodyLeft ==
  /\ (Returned /\ ret.stream = "nil") => open = {}
  /\ (Returned /\ ret.stream \in {"daemon", "gateway"} /\ ~closed) =>
       Cardinality(open) = 1
  /\ closed => open = {}

\* C18: no leaked reporter: under fair scheduling a reporter that has been
\* started eventually terminates on every exit path of httpGet; on the
\* failure paths after its start (GET initiation, copy) the temporary file
\* has been removed when httpGet returns, so that its next sample fails, and
\* a reporter that printed COMPLETE has received the completion signal.
C18_ReporterTerminates ==
  /\ [](ret.err.origin \in {"Do", "Copy"} => ~fileExists)
  /\ [](rpc = "done" => halt)
  /\ (rpc /= "idle") ~> (rpc \in {"done", "exited"})

C18_Witness ==
  /\ Returned
  /\ ret.err.origin = "Copy"
  /\ rpc = "exited"
  /\ ~fileExists
  /\ Len(emitted) >= 1

====
